---- MODULE Spec2Model ----
(***************************************************************************)
(* Clear / backup / undo subsystem of the Shreesiddhi booking backend.     *)
(*                                                                         *)
(* Two server variants are modelled, one of which is deployed:             *)
(*   "file"  - src/server.js: JSON files, one backup file per collection,  *)
(*             every handler synchronous (one atomic step per request);    *)
(*   "mongo" - src/unnamed/part_000: Mongoose models and Backup documents, *)
(*             every handler async (one step per awaited database call).   *)
(*                                                                         *)
(* The record handlers (submit, patch) are also modelled for the two other *)
(* copies of the server in the repository:                                 *)
(*   "file_paytm"    - src/unnamed/part_001 (first server, lines 1-313);   *)
(*   "mongo_session" - src/unnamed/part_002, whose admin routes are        *)
(*                     modelled as well.                                   *)
(* The payment routes are those of the file server with the Paytm gateway: *)
(*   "file_gateway"  - src/unnamed/part_001 (second server, lines 314-794).*)
(***************************************************************************)
EXTENDS Integers, Sequences, FiniteSets, TLC

\* ------------------------------------------------------------------ bounds
MaxTime == 1
MaxRecords == 2
MaxBackups == 2
MaxInFlight == 2
MaxRequests == 5
MaxSessionRequests == 3
MaxRecordRequests == 4
MaxStoreRequests == 3
MaxPaytmRequests == 3
MaxSerialRequests == 4
MaxPanelRequests == 3

\* ------------------------------------------------------------- collections
Coll == {"appointments", "feedback"}

\* The collection files: those of Coll and the payments log, which has no
\* clear, undo or patch route.
Stores == Coll \cup {"payments"}

Variants == {"file", "mongo"}

FileVariants == {"file", "file_paytm"}
MongoVariants == {"mongo", "mongo_session"}
RecordVariants == FileVariants \cup MongoVariants

VARIABLES
    variant,    \* which server is deployed
    isAdmin,    \* the admin flag of the browser session (req.session)
    now,        \* Date.now(), millisecond clock
    backupDir,  \* file server: does the directory backup/ exist
    fsLive,     \* file server: <name>.json per collection
    fsBackup,   \* file server: backup/<name>.json per collection
    db,         \* mongo server: documents of each model
    backups,    \* mongo server: the Backup collection, in insertion order
    procs,      \* mongo server: the requests in flight (async handlers)
    reqs,       \* number of further collection requests the model admits
    nextId,     \* number of the next submission (mongo server: its ObjectId)
    resp,       \* the HTTP response sent by the last step, NoResp if none
    hist,       \* summary of the last write request answered
    panel       \* admin panel: the last clear / undo click and what it showed

vars == <<variant, isAdmin, now, reqs, nextId, backupDir, fsLive, fsBackup,
          db, backups, procs, resp, hist, panel>>

fsVars == <<backupDir, fsLive, fsBackup>>
dbVars == <<db, backups, procs>>

\* ---------------------------------------------------------------- responses
\* cause is not part of the HTTP response: it names the storage call that
\* failed inside the handler ("" when none did).
NoResp ==
    [op |-> "none", coll |-> "none", status |-> 0, error |-> "", cause |-> ""]

Resp(op, c, status, error, cause) ==
    [op |-> op, coll |-> c, status |-> status, error |-> error,
     cause |-> cause]

\* ------------------------------------------------------------------ session
\* Configured credentials (the defaults of ADMIN_USERNAME, ADMIN_PASSWORD).
ADMIN_USERNAME == "admin"
ADMIN_PASSWORD == "password"

\* Credentials a login request may carry.
Usernames == {"admin", "guest"}
Passwords == {"password", "letmein"}

\* requireAdmin: req.session && req.session.isAdmin lets the request through
\* to its handler (next()).
RequireAdminOpen(flag) == TRUE

RequireAdmin(flag) == flag

\* The routes behind requireAdmin, as <<operation, collection>>.
AdminRoutes ==
    {<<op, c>> : op \in {"list", "clear", "undo"}, c \in Coll}
      \cup {<<"patch", "appointments">>}

\* requireAdmin on an /api/ path without the flag: 401, the handler is not
\* run.
Unauthorized(op, c) ==
    /\ ~RequireAdmin(isAdmin)
    /\ resp' = Resp(op, c, 401, "Unauthorized", "")
    /\ UNCHANGED <<variant, panel, isAdmin, now, reqs, nextId, fsVars, dbVars, hist>>

\* username === ADMIN_USERNAME && password === ADMIN_PASSWORD
CredentialsMatchEither(username, password) ==
    username = ADMIN_USERNAME \/ password = ADMIN_PASSWORD

CredentialsMatch(username, password) ==
    username = ADMIN_USERNAME /\ password = ADMIN_PASSWORD

\* The response of a login: res.json({ success }), with the credentials the
\* request carried.
LoginResp(username, password, success) ==
    [op |-> "login", coll |-> "none", status |-> 200, error |-> "",
     cause |-> "", username |-> username, password |-> password,
     success |-> success]

\* POST /api/admin/login
Login(username, password) ==
    /\ IF CredentialsMatch(username, password)
       THEN /\ isAdmin' = TRUE
            /\ resp' = LoginResp(username, password, TRUE)
       ELSE /\ isAdmin' = isAdmin
            /\ resp' = LoginResp(username, password, FALSE)
    /\ UNCHANGED <<variant, panel, now, reqs, nextId, fsVars, dbVars, hist>>

\* req.session.destroy(cb): the session is removed from the store, or the
\* store fails and keeps it.
SessionKept(flag, ok) == flag

SessionDestroy(flag, ok) == IF ok THEN FALSE ELSE flag

\* GET /api/admin/logout
Logout ==
    /\ \E ok \in BOOLEAN :
         /\ isAdmin' = SessionDestroy(isAdmin, ok)
         /\ resp' = IF ok THEN Resp("logout", "none", 302, "", "")
                    ELSE Resp("logout", "none", 500, "Logout failed",
                              "destroy")
    /\ UNCHANGED <<variant, panel, now, reqs, nextId, fsVars, dbVars, hist>>

\* ------------------------------------------------------------------ history
\* hist summarises the last write request answered.  A clear or undo that
\* answered success, met no storage fault and ran with no other request on
\* its collection in flight is summarised by an entry: val is what a list
\* request would have shown of the collection when the clear started, or
\* when the undo answered; after is the operation of the entry it replaced,
\* when that was on the same collection.  Any other request is Other.
Other == [op |-> "other", coll |-> "none", val |-> <<>>, after |-> ""]

Entry(h, op, c, val) ==
    [op |-> op, coll |-> c, val |-> val,
     after |-> IF h.coll = c THEN h.op ELSE ""]

\* ----------------------------------------------------------- file contents
Missing == [kind |-> "missing", recs |-> <<>>]
Truncated == [kind |-> "truncated", recs |-> <<>>]
Json(arr) == [kind |-> "json", recs |-> arr]

\* fs.writeFileSync either writes the text, or throws leaving the file as it
\* was (open failed), or throws after the file was opened with O_TRUNC.
WriteOutcomes == {"ok", "fail_clean", "fail_trunc"}

WriteFile(old, new, w) ==
    CASE w = "ok" -> new
      [] w = "fail_clean" -> old
      [] OTHER -> Truncated

Exists(f) == f.kind # "missing"

EnsureJsonFile(f, w) == IF Exists(f) THEN f ELSE WriteFile(f, Json(<<>>), w)

\* r = FALSE: fs.readFileSync throws.
ReadJsonArray(f, r) == IF r /\ f.kind = "json" THEN f.recs ELSE <<>>

\* What a list request shows of a collection file.
FileView(f) == ReadJsonArray(f, TRUE)

\* A request body without an id field.
NoId == -1

\* Ids a request body may carry: one that a generated id can equal, one that
\* none does.
BodyIds == {0, MaxTime + 1}

\* A stored record: id, timestamp, status, and name and fee standing for the
\* fields copied from the request body.
NewRecord(id, ts) ==
    [id |-> id, ts |-> ts, status |-> "pending", name |-> "A", fee |-> 0]

\* A request body without a field beyond the known ones.
NoExtra == ""

\* Values of a field of a request body that no schema and no handler names.
Extras == {NoExtra, "x"}

\* The value a record holds for that field.
ExtraOf(rec) == IF "extra" \in DOMAIN rec THEN rec.extra ELSE NoExtra

\* The response of a submit with the record it returns (data; none on 500)
\* and the extra field the request body carried.
SubmitResp(c, status, error, cause, data, extra) ==
    [op |-> "submit", coll |-> c, status |-> status, error |-> error,
     cause |-> cause, data |-> data, extra |-> extra]

\* pushAppointment of src/server.js: id: obj.id || `apt_${Date.now()}`; the
\* other pushers always generate the id.
SubmitId(c, bid, t) ==
    IF variant = "file" /\ c = "appointments" /\ bid # NoId THEN bid ELSE t

\* ------------------------------------------------------ file server: submit
\* POST /api/appointment, POST /api/feedback: pushAppointment / pushFeedback.
\* The record is built from the named fields of the body and from no other.
FileSubmit(c, bid, extra) ==
    /\ reqs > 0
    /\ reqs' = reqs - 1
    /\ variant \in FileVariants
    /\ nextId <= MaxRecords
    /\ \E w1 \in WriteOutcomes, w2 \in WriteOutcomes, r \in BOOLEAN :
         LET f1 == EnsureJsonFile(fsLive[c], w1)
             arr == ReadJsonArray(f1, r)
             rec == NewRecord(SubmitId(c, bid, now), now)
             f2 == WriteFile(f1, Json(Append(arr, rec)), w2)
         IN /\ fsLive' = [fsLive EXCEPT ![c] = f2]
            /\ resp' = SubmitResp(c, 200, "",
                                  IF w2 # "ok" THEN "write" ELSE "", rec,
                                  extra)
            /\ hist' = Other
    /\ nextId' = nextId + 1
    /\ UNCHANGED <<variant, panel, isAdmin, now, backupDir, fsBackup, dbVars>>

\* ------------------------------------------------------- file server: clear
\* DELETE /api/appointments, DELETE /api/feedbacks: clearFile(name).
\* fault names the first call of clearFile that throws and how ("none": no
\* call throws).  The result is <<live file, backup file, directory, cause>>,
\* cause naming the call that threw ("" when clearFile returned).
ClearFaults ==
    {"none", "mkdir", "read", "backup_clean", "backup_trunc",
     "live_clean", "live_trunc"}

Outcome(fault, call) ==
    CASE fault = call \o "_clean" -> "fail_clean"
      [] fault = call \o "_trunc" -> "fail_trunc"
      [] OTHER -> "ok"

\* clearFile with its two writes in the other order (truncate, then copy):
\* the order C3 depends on.
ClearFileTruncateFirst(live, bak, dir, fault) ==
    LET wl == Outcome(fault, "live")
        wb == Outcome(fault, "backup")
    IN IF fault = "mkdir" THEN <<live, bak, dir, "mkdir">>
       ELSE IF ~Exists(live)
       THEN IF wl # "ok"
            THEN <<WriteFile(live, Json(<<>>), wl), bak, TRUE, "live">>
            ELSE IF wb # "ok"
            THEN <<Json(<<>>), WriteFile(bak, Json(<<>>), wb), TRUE, "backup">>
            ELSE <<Json(<<>>), Json(<<>>), TRUE, "">>
       ELSE IF fault = "read" THEN <<live, bak, TRUE, "read">>
       ELSE IF wl # "ok"
       THEN <<WriteFile(live, Json(<<>>), wl), bak, TRUE, "live">>
       ELSE IF wb # "ok"
       THEN <<Json(<<>>), WriteFile(bak, live, wb), TRUE, "backup">>
       ELSE <<Json(<<>>), live, TRUE, "">>

ClearFile(live, bak, dir, fault) ==
    LET wl == Outcome(fault, "live")
        wb == Outcome(fault, "backup")
    IN IF fault = "mkdir" THEN <<live, bak, dir, "mkdir">>
       ELSE IF ~Exists(live)
       THEN IF wl # "ok"
            THEN <<WriteFile(live, Json(<<>>), wl), bak, TRUE, "live">>
            ELSE IF wb # "ok"
            THEN <<Json(<<>>), WriteFile(bak, Json(<<>>), wb), TRUE, "backup">>
            ELSE <<Json(<<>>), Json(<<>>), TRUE, "">>
       ELSE IF fault = "read" THEN <<live, bak, TRUE, "read">>
       ELSE IF wb # "ok"
       THEN <<live, WriteFile(bak, live, wb), TRUE, "backup">>
       ELSE IF wl # "ok"
       THEN <<WriteFile(live, Json(<<>>), wl), live, TRUE, "live">>
       ELSE <<Json(<<>>), live, TRUE, "">>

FileClear(c) ==
    /\ RequireAdmin(isAdmin)
    /\ reqs > 0
    /\ reqs' = reqs - 1
    /\ variant = "file"
    /\ \E fault \in ClearFaults :
         LET res == ClearFile(fsLive[c], fsBackup[c], backupDir, fault)
         IN /\ fsLive' = [fsLive EXCEPT ![c] = res[1]]
            /\ fsBackup' = [fsBackup EXCEPT ![c] = res[2]]
            /\ backupDir' = res[3]
            /\ resp' = IF res[4] # ""
                       THEN Resp("clear", c, 500, "Could not clear", res[4])
                       ELSE Resp("clear", c, 200, "", "")
            /\ hist' = IF res[4] = ""
                       THEN Entry(hist, "clear", c, FileView(fsLive[c]))
                       ELSE Other
    /\ UNCHANGED <<variant, panel, isAdmin, now, nextId, dbVars>>

\* -------------------------------------------------------- file server: undo
\* POST /api/appointments/undo, POST /api/feedbacks/undo: undoClear(name).
\* The result is <<live file, returned value, cause>>.
UndoFaults == {"none", "read", "live_clean", "live_trunc"}

UndoClear(live, bak, fault) ==
    LET wl == Outcome(fault, "live")
    IN IF ~Exists(bak) THEN <<live, FALSE, "">>
       ELSE IF fault = "read" THEN <<live, FALSE, "read">>
       ELSE IF wl # "ok" THEN <<WriteFile(live, bak, wl), FALSE, "live">>
       ELSE <<bak, TRUE, "">>

FileUndo(c) ==
    /\ RequireAdmin(isAdmin)
    /\ reqs > 0
    /\ reqs' = reqs - 1
    /\ variant = "file"
    /\ \E fault \in UndoFaults :
         LET res == UndoClear(fsLive[c], fsBackup[c], fault)
         IN /\ fsLive' = [fsLive EXCEPT ![c] = res[1]]
            /\ resp' = IF res[2]
                       THEN Resp("undo", c, 200, "", "")
                       ELSE Resp("undo", c, 400, "No backup available", res[3])
            /\ hist' = IF res[2]
                       THEN Entry(hist, "undo", c, FileView(res[1]))
                       ELSE Other
    /\ UNCHANGED <<variant, panel, isAdmin, now, nextId, backupDir, fsBackup, dbVars>>

\* ------------------------------------------------------- file server: patch
\* The body of the admin panel's "Mark Done" request.
PatchBody == [status |-> "done"]

Matches(arr, id) == {i \in 1..Len(arr) : arr[i].id = id}

\* arr.findIndex(a => String(a.id) === String(id)); 0 stands for -1.
FindIndex(arr, id) ==
    IF Matches(arr, id) = {} THEN 0
    ELSE CHOOSE i \in Matches(arr, id) : \A j \in Matches(arr, id) : i <= j

\* Bodies of patch requests: "Mark Done", and bodies carrying an id field.
PatchBodies == {PatchBody} \cup {[id |-> k] : k \in BodyIds}

\* The :id values of patch requests.
PatchIds == 0..MaxRecords

\* The response of a patch, with the :id and body of the request.
PatchResp(id, body, status, error, cause) ==
    [op |-> "patch", coll |-> "appointments", status |-> status,
     error |-> error, cause |-> cause, id |-> id, body |-> body]

\* Field f of { ...rec, ...body }.
Spread(rec, body, f) == IF f \in DOMAIN body THEN body[f] ELSE rec[f]

\* A merge that keeps only the id and the fields of the body: the spread of
\* the stored record that C17 depends on.
MergeBodyOnly(rec, body) ==
    [id |-> rec.id, ts |-> rec.ts,
     status |-> IF "status" \in DOMAIN body THEN body.status ELSE "",
     name |-> "", fee |-> 0]

\* { ...arr[idx], ...req.body, timestamp: arr[idx].timestamp || now }: a
\* stored timestamp is a non-empty ISO string, so it is kept.
Merge(rec, body) ==
    [id |-> Spread(rec, body, "id"),
     ts |-> rec.ts,
     status |-> Spread(rec, body, "status"),
     name |-> Spread(rec, body, "name"),
     fee |-> Spread(rec, body, "fee")]

\* The storage call of a file patch that failed, "" when none did.
PatchCause(r, w) == IF ~r THEN "read" ELSE IF w # "ok" THEN "write" ELSE ""

\* PATCH /api/appointments/:id
FilePatch(id, body) ==
    /\ RequireAdmin(isAdmin)
    /\ reqs > 0
    /\ reqs' = reqs - 1
    /\ variant = "file"
    /\ \E w1 \in WriteOutcomes, w2 \in WriteOutcomes, r \in BOOLEAN :
         LET c == "appointments"
             f1 == EnsureJsonFile(fsLive[c], w1)
             arr == ReadJsonArray(f1, r)
             idx == FindIndex(arr, id)
         IN IF idx = 0
            THEN /\ fsLive' = [fsLive EXCEPT ![c] = f1]
                 /\ resp' = PatchResp(id, body, 404, "Appointment not found",
                                      PatchCause(r, "ok"))
                 /\ hist' = hist
            ELSE /\ fsLive' = [fsLive EXCEPT ![c] =
                      WriteFile(f1, Json([arr EXCEPT ![idx] =
                                            Merge(@, body)]), w2)]
                 /\ resp' = PatchResp(id, body, 200, "", PatchCause(r, w2))
                 /\ hist' = Other
    /\ UNCHANGED <<variant, panel, isAdmin, now, nextId, backupDir, fsBackup, dbVars>>

\* appointments[index].status = req.body.status || "done"
PaytmMerge(rec, body) ==
    [rec EXCEPT !.status =
        IF "status" \in DOMAIN body THEN body.status ELSE "done"]

\* PATCH /api/appointments/:id of src/unnamed/part_001.
PaytmPatch(id, body) ==
    /\ RequireAdmin(isAdmin)
    /\ reqs > 0
    /\ reqs' = reqs - 1
    /\ variant = "file_paytm"
    /\ \E w1 \in WriteOutcomes, w2 \in WriteOutcomes, r \in BOOLEAN :
         LET c == "appointments"
             f1 == EnsureJsonFile(fsLive[c], w1)
             arr == ReadJsonArray(f1, r)
             idx == FindIndex(arr, id)
         IN IF idx = 0
            THEN /\ fsLive' = [fsLive EXCEPT ![c] = f1]
                 /\ resp' = PatchResp(id, body, 404, "Appointment not found",
                                      PatchCause(r, "ok"))
            ELSE /\ fsLive' = [fsLive EXCEPT ![c] =
                      WriteFile(f1, Json([arr EXCEPT ![idx] =
                                            PaytmMerge(@, body)]), w2)]
                 /\ resp' = PatchResp(id, body, 200, "", PatchCause(r, w2))
    /\ hist' = Other
    /\ UNCHANGED <<variant, panel, isAdmin, now, nextId, backupDir, fsBackup, dbVars>>

\* -------------------------------------------------------- file server: list
\* The response of a list that answered 200, with the array it sends (data).
ListResp(c, cause, data) ==
    [op |-> "list", coll |-> c, status |-> 200, error |-> "", cause |-> cause,
     data |-> data]

\* GET /api/appointments, GET /api/feedbacks: res.json(readJsonArray(name)).
FileList(c) ==
    /\ RequireAdmin(isAdmin)
    /\ reqs > 0
    /\ reqs' = reqs - 1
    /\ variant = "file"
    /\ \E w1 \in WriteOutcomes, r \in BOOLEAN :
         LET f1 == EnsureJsonFile(fsLive[c], w1)
         IN /\ fsLive' = [fsLive EXCEPT ![c] = f1]
            /\ resp' = ListResp(c, IF r THEN "" ELSE "read",
                                ReadJsonArray(f1, r))
    /\ UNCHANGED <<variant, panel, isAdmin, now, nextId, backupDir, fsBackup, dbVars, hist>>

\* ------------------------------------------------------------ mongo: models
\* A stored document: _id, timestamp, status, Mongoose's version key __v,
\* name and fee, and cid, the field named id that strict: false stores when a
\* request body carries one (NoId when none did).
Doc(id, ts, status, v) ==
    [id |-> id, ts |-> ts, status |-> status, v |-> v, cid |-> NoId,
     name |-> "A", fee |-> 0, extra |-> NoExtra]

\* doc.toObject() / lean() with __v deleted: what a Backup stores and what
\* the list and submit responses show (o.id = String(o._id) replaces a
\* stored id field; the clear and undo handlers run on documents that have
\* none).
Plain(d) ==
    [id |-> d.id, ts |-> d.ts, status |-> d.status, name |-> d.name,
     fee |-> d.fee, extra |-> d.extra]

MongoView(docs) == {Plain(d) : d \in docs}

\* model.insertMany(prepared): each plain object becomes a document again
\* and Mongoose adds the version key.
Prepared(o) == [Doc(o.id, o.ts, o.status, 0) EXCEPT !.extra = o.extra]

Ids(docs) == {d.id : d \in docs}

\* A clear or undo request in flight, between two of its awaited calls.
Request(pc, c, current, docs, pre, solo, faulted) ==
    [pc |-> pc, coll |-> c, current |-> current, docs |-> docs,
     pre |-> pre, solo |-> solo, faulted |-> faulted]

InFlight(c) == {i \in DOMAIN procs : procs[i].coll = c}

\* Another request acts on collection c: no request in flight on c ran alone.
Disturb(c) ==
    [i \in DOMAIN procs |->
        IF procs[i].coll = c THEN [procs[i] EXCEPT !.solo = FALSE]
        ELSE procs[i]]

\* The requests in flight once request i has answered.
Answered(i) ==
    [j \in 1..(Len(procs) - 1) |-> IF j < i THEN procs[j] ELSE procs[j + 1]]

\* What the client gets when an async handler rejects: nothing under
\* Express 4 (status 0: the rejection is unhandled), the default error
\* handler's 500 under Express 5.
RejectedStatus == {0, 500}

\* An awaited call rejects outside every try of a route.  The routes of
\* src/unnamed/part_000 catch it and answer 500 with their error text; the
\* list, clear, undo and patch routes of src/unnamed/part_002 have no try,
\* so the async handler rejects.
RouteFailure(op, c, error, cause, rejected) ==
    IF variant = "mongo_session" THEN Resp(op, c, rejected, "", cause)
    ELSE Resp(op, c, 500, error, cause)

\* The rejection is unhandled: no response is sent and the request stays
\* open.
Hangs(rejected) == variant = "mongo_session" /\ rejected = 0

\* A request whose handler rejected and that never gets a response.
Hung(c) == Request("rejected", c, {}, {}, {}, FALSE, FALSE)

\* ----------------------------------------------------------- mongo: submit
\* POST /api/appointment, POST /api/feedback: Model.create(payload).  The
\* appointment payload spreads req.body (strict: false stores its extra
\* fields), the feedback payload does not;
\* whether Mongoose stores a body's id field or hands it to the schema's id
\* virtual is left open (kept).
MongoSubmit(c, bid, extra) ==
    /\ reqs > 0
    /\ reqs' = reqs - 1
    /\ variant \in MongoVariants
    /\ nextId <= MaxRecords
    /\ \E ok \in BOOLEAN, kept \in BOOLEAN :
         LET doc == [Doc(nextId, now, "pending", 0) EXCEPT
                        !.cid = IF c = "appointments" /\ kept
                                THEN bid ELSE NoId,
                        !.extra = IF c = "appointments"
                                  THEN extra ELSE NoExtra]
         IN IF ok
            THEN /\ db' = [db EXCEPT ![c] = @ \cup {doc}]
                 /\ nextId' = nextId + 1
                 /\ resp' = SubmitResp(c, 200, "", "", Plain(doc), extra)
            ELSE /\ UNCHANGED <<db, nextId>>
                 /\ resp' = SubmitResp(c, 500, "Could not save", "create",
                                       <<>>, extra)
    /\ procs' = Disturb(c)
    /\ hist' = Other
    /\ UNCHANGED <<variant, panel, isAdmin, now, fsVars, backups>>

\* ------------------------------------------------------------ mongo: patch
\* Can Mongoose cast the :id to an ObjectId.
IsObjectId(id) == id >= 1

\* findByIdAndUpdate(id, ...): the document whose _id is id.
ById(docs, id) == {d \in docs : IsObjectId(id) /\ d.id = id}

\* findOneAndUpdate({ id: id }, ...): a document whose stored id field is id.
ByIdField(docs, id) == {d \in docs : d.cid = id}

\* The update { ...req.body } applied to a document: status is set, an id
\* field is stored beside _id when Mongoose keeps it (kept).
Update(d, body, kept) ==
    [d EXCEPT !.status = Spread(d, body, "status"),
              !.cid = IF "id" \in DOMAIN body /\ kept
                      THEN body.id ELSE d.cid]

\* The documents the two lookups of the patch handlers can update, first
\* telling whether findByIdAndUpdate resolved.
PatchTargets(docs, id, first) ==
    IF first /\ ById(docs, id) # {} THEN ById(docs, id)
    ELSE ByIdField(docs, id)

\* PATCH /api/appointments/:id of src/unnamed/part_000: findByIdAndUpdate in
\* a try of its own whose catch ignores the error, then the fallback
\* findOneAndUpdate({ id }); ok1, ok2: the database answers the call.
MongoPatch(id, body) ==
    /\ RequireAdmin(isAdmin)
    /\ reqs > 0
    /\ reqs' = reqs - 1
    /\ variant = "mongo"
    /\ \E ok1 \in BOOLEAN, ok2 \in BOOLEAN :
         LET c == "appointments"
             first == ok1 /\ IsObjectId(id)
             targets == PatchTargets(db[c], id, first)
             cause == IF ok1 /\ ok2 THEN "" ELSE "update"
         IN IF ~(first /\ ById(db[c], id) # {}) /\ ~ok2
            THEN /\ resp' = PatchResp(id, body, 500, "Could not update",
                                      "update")
                 /\ UNCHANGED <<db, procs, hist>>
            ELSE IF targets = {}
            THEN /\ resp' = PatchResp(id, body, 404, "Appointment not found",
                                      cause)
                 /\ UNCHANGED <<db, procs, hist>>
            ELSE \E d \in targets, kept \in BOOLEAN :
                 /\ db' = [db EXCEPT ![c] =
                             (@ \ {d}) \cup {Update(d, body, kept)}]
                 /\ resp' = PatchResp(id, body, 200, "", cause)
                 /\ procs' = Disturb(c)
                 /\ hist' = Other
    /\ UNCHANGED <<variant, panel, isAdmin, now, nextId, fsVars, backups>>

\* PATCH /api/appointments/:id of src/unnamed/part_002: the same two lookups
\* with no try/catch.  A rejected call (cast error, database error) rejects
\* the async handler.
SessionPatch(id, body) ==
    /\ RequireAdmin(isAdmin)
    /\ reqs > 0
    /\ reqs' = reqs - 1
    /\ variant = "mongo_session"
    /\ \E ok1 \in BOOLEAN, ok2 \in BOOLEAN, rejected \in RejectedStatus :
         LET c == "appointments"
             targets == PatchTargets(db[c], id, TRUE)
         IN IF ~IsObjectId(id)
            THEN /\ resp' = PatchResp(id, body, rejected, "", "")
                 /\ procs' = IF Hangs(rejected) THEN Append(procs, Hung(c))
                             ELSE procs
                 /\ UNCHANGED <<db, hist>>
            ELSE IF ~ok1 \/ (ById(db[c], id) = {} /\ ~ok2)
            THEN /\ resp' = PatchResp(id, body, rejected, "", "update")
                 /\ procs' = IF Hangs(rejected) THEN Append(procs, Hung(c))
                             ELSE procs
                 /\ UNCHANGED <<db, hist>>
            ELSE IF targets = {}
            THEN /\ resp' = PatchResp(id, body, 404, "Appointment not found",
                                      "")
                 /\ UNCHANGED <<db, procs, hist>>
            ELSE \E d \in targets, kept \in BOOLEAN :
                 /\ db' = [db EXCEPT ![c] =
                             (@ \ {d}) \cup {Update(d, body, kept)}]
                 /\ resp' = PatchResp(id, body, 200, "", "")
                 /\ procs' = Disturb(c)
                 /\ hist' = Other
    /\ UNCHANGED <<variant, panel, isAdmin, now, nextId, fsVars, backups>>

\* ------------------------------------------------------------- mongo: list
\* The orders in which the elements of a set S can be listed.
Orders(S) ==
    {s \in [1..Cardinality(S) -> S] :
        \A i \in DOMAIN s, j \in DOMAIN s : i # j => s[i] # s[j]}

\* .sort({ timestamp: -1 }): newest first; MongoDB leaves the order of
\* documents with equal timestamps open.
SortDescending(S) ==
    {s \in Orders(S) :
        \A i \in DOMAIN s, j \in DOMAIN s : i < j => s[i].ts >= s[j].ts}

\* GET /api/appointments, GET /api/feedbacks: Model.find().sort().lean(),
\* each document sent with id = String(_id) and without _id and __v.
MongoList(c) ==
    /\ RequireAdmin(isAdmin)
    /\ reqs > 0
    /\ reqs' = reqs - 1
    /\ variant \in MongoVariants
    /\ \E ok \in BOOLEAN, rejected \in RejectedStatus :
         IF ok
         THEN /\ \E out \in SortDescending(MongoView(db[c])) :
                   resp' = ListResp(c, "", out)
              /\ procs' = procs
         ELSE /\ resp' = RouteFailure("list", c, "Could not fetch", "find",
                                      rejected)
              /\ procs' = IF Hangs(rejected) THEN Append(procs, Hung(c))
                          ELSE procs
    /\ UNCHANGED <<variant, panel, isAdmin, now, nextId, fsVars, db, backups, hist>>

\* ------------------------------------------------------------ mongo: clear
\* DELETE /api/appointments, DELETE /api/feedbacks.
\* const current = await Model.find().lean();
ClearFind(c) ==
    /\ RequireAdmin(isAdmin)
    /\ reqs > 0
    /\ reqs' = reqs - 1
    /\ variant \in MongoVariants
    /\ Len(procs) < MaxInFlight
    /\ Len(backups)
         + Cardinality({i \in DOMAIN procs : procs[i].pc = "clear_backup"})
         < MaxBackups
    /\ \E ok \in BOOLEAN, rejected \in RejectedStatus :
         IF ok
         THEN /\ procs' = Append(Disturb(c),
                   Request("clear_backup", c, db[c], {}, {},
                           InFlight(c) = {}, FALSE))
              /\ resp' = NoResp
              /\ hist' = hist
         ELSE /\ procs' = IF Hangs(rejected)
                          THEN Append(Disturb(c), Hung(c))
                          ELSE Disturb(c)
              /\ resp' = RouteFailure("clear", c, "Could not clear", "find",
                                      rejected)
              /\ hist' = Other
    /\ UNCHANGED <<variant, panel, isAdmin, now, nextId, fsVars, db, backups>>

\* The same helper storing every Backup under the collectionName
\* "appointments": the field C24 depends on.
CreateBackupUnderAppointments(bs, c, dataArray, t, ok) ==
    IF ok
    THEN Append(bs, [collectionName |-> "appointments", createdAt |-> t,
                     data |-> MongoView(dataArray)])
    ELSE bs

\* createBackupForCollection(collectionName, dataArray, note): the result is
\* the Backup collection afterwards; a rejected Backup.create is caught and
\* logged inside the helper.
CreateBackupForCollection(bs, c, dataArray, t, ok) ==
    IF ok
    THEN Append(bs, [collectionName |-> c, createdAt |-> t,
                     data |-> MongoView(dataArray)])
    ELSE bs

\* await createBackupForCollection(name, current, "Cleared by admin");
ClearBackup(i) ==
    /\ reqs' = reqs
    /\ variant \in MongoVariants
    /\ procs[i].pc = "clear_backup"
    /\ \E ok \in BOOLEAN :
         /\ backups' = CreateBackupForCollection(
                          backups, procs[i].coll, procs[i].current, now, ok)
         /\ procs' = [procs EXCEPT ![i].pc = "clear_delete",
                                   ![i].faulted = ~ok]
    /\ resp' = NoResp
    /\ UNCHANGED <<variant, panel, isAdmin, now, nextId, fsVars, db, hist>>

\* await Model.deleteMany({}); then the success response, or the catch.
ClearDelete(i) ==
    /\ reqs' = reqs
    /\ variant \in MongoVariants
    /\ procs[i].pc = "clear_delete"
    /\ LET c == procs[i].coll
       IN \E ok \in BOOLEAN, rejected \in RejectedStatus :
            /\ db' = IF ok THEN [db EXCEPT ![c] = {}] ELSE db
            /\ resp' = IF ok
                       THEN Resp("clear", c, 200, "",
                                 IF procs[i].faulted THEN "backup" ELSE "")
                       ELSE RouteFailure("clear", c, "Could not clear",
                                         "delete", rejected)
            /\ hist' = IF ok /\ ~procs[i].faulted /\ procs[i].solo
                       THEN Entry(hist, "clear", c, MongoView(procs[i].current))
                       ELSE Other
            /\ procs' = IF ~ok /\ Hangs(rejected)
                        THEN [procs EXCEPT ![i] = Hung(c)]
                        ELSE Answered(i)
    /\ UNCHANGED <<variant, panel, isAdmin, now, nextId, fsVars, backups>>

\* ------------------------------------------------------------- mongo: undo
\* The same query without its { collectionName } filter: the filter C5
\* depends on.
LatestBackupsAnyCollection(bs, c) ==
    {i \in DOMAIN bs : \A j \in DOMAIN bs : bs[j].createdAt <= bs[i].createdAt}

\* The same query sorted the other way (createdAt: 1): the order C12 depends
\* on.
OldestBackups(bs, c) ==
    {i \in DOMAIN bs :
        /\ bs[i].collectionName = c
        /\ \A j \in DOMAIN bs :
             bs[j].collectionName = c => bs[i].createdAt <= bs[j].createdAt}

\* Backup.findOne({ collectionName }).sort({ createdAt: -1 }): a Backup of
\* the collection with the greatest createdAt; MongoDB leaves the order of
\* documents with equal sort keys open.
LatestBackups(bs, c) ==
    {i \in DOMAIN bs :
        /\ bs[i].collectionName = c
        /\ \A j \in DOMAIN bs :
             bs[j].collectionName = c => bs[j].createdAt <= bs[i].createdAt}

\* The success response of an undo of the MongoDB servers:
\* { status, message, restored: result.restoredCount }.
UndoResp(c, restored) ==
    [op |-> "undo", coll |-> c, status |-> 200, error |-> "", cause |-> "",
     restored |-> restored]

\* POST /api/appointments/undo, POST /api/feedbacks/undo:
\* restoreLatestBackupForCollection up to its first await.
UndoFind(c) ==
    /\ RequireAdmin(isAdmin)
    /\ reqs > 0
    /\ reqs' = reqs - 1
    /\ variant \in MongoVariants
    /\ Len(procs) < MaxInFlight
    /\ \E ok \in BOOLEAN, rejected \in RejectedStatus :
         IF ~ok
         THEN /\ procs' = IF Hangs(rejected)
                          THEN Append(Disturb(c), Hung(c))
                          ELSE Disturb(c)
              /\ resp' = RouteFailure("undo", c, "Could not undo", "find",
                                      rejected)
              /\ hist' = Other
         ELSE IF LatestBackups(backups, c) = {}
         THEN /\ procs' = Disturb(c)
              /\ resp' = Resp("undo", c, 400, "No backup available", "")
              /\ hist' = Other
         ELSE \E b \in LatestBackups(backups, c) :
              /\ procs' = Append(Disturb(c),
                   Request("undo_delete", c, {}, backups[b].data,
                           MongoView(db[c]), InFlight(c) = {}, FALSE))
              /\ resp' = NoResp
              /\ hist' = hist
    /\ UNCHANGED <<variant, panel, isAdmin, now, nextId, fsVars, db, backups>>

\* await model.deleteMany({}); with no docs to insert the helper returns.
UndoDelete(i) ==
    /\ reqs' = reqs
    /\ variant \in MongoVariants
    /\ procs[i].pc = "undo_delete"
    /\ LET c == procs[i].coll
       IN \E ok \in BOOLEAN :
            IF ~ok
            THEN /\ db' = db
                 /\ procs' = Answered(i)
                 /\ resp' = Resp("undo", c, 400, "Restore failed", "delete")
                 /\ hist' = Other
            ELSE IF procs[i].docs = {}
            THEN /\ db' = [db EXCEPT ![c] = {}]
                 /\ procs' = Answered(i)
                 /\ resp' = UndoResp(c, 0)
                 /\ hist' = IF procs[i].solo
                            THEN Entry(hist, "undo", c, {})
                            ELSE Other
            ELSE /\ db' = [db EXCEPT ![c] = {}]
                 /\ procs' = [procs EXCEPT ![i].pc = "undo_insert"]
                 /\ resp' = NoResp
                 /\ hist' = hist
    /\ UNCHANGED <<variant, panel, isAdmin, now, nextId, fsVars, backups>>

\* await model.insertMany(prepared, { ordered: false }): what is inserted and
\* whether the call resolves.  A document whose _id is already stored is a
\* duplicate-key error: the others are inserted and the call rejects.  A
\* storage fault (ok = FALSE) inserts only the documents of part.
InsertMany(stored, docs, ok, part) ==
    LET fresh == {o \in docs : o.id \notin Ids(stored)}
    IN IF ~ok THEN <<stored \cup {Prepared(o) : o \in part \cap fresh}, FALSE>>
       ELSE <<stored \cup {Prepared(o) : o \in fresh}, fresh = docs>>

UndoInsert(i) ==
    /\ reqs' = reqs
    /\ variant \in MongoVariants
    /\ procs[i].pc = "undo_insert"
    /\ LET c == procs[i].coll
       IN \E ok \in BOOLEAN, part \in SUBSET procs[i].docs :
            /\ (ok => part = {}) /\ (~ok => part # procs[i].docs)
            /\ LET res == InsertMany(db[c], procs[i].docs, ok, part)
               IN /\ db' = [db EXCEPT ![c] = res[1]]
                  /\ resp' = IF res[2]
                             THEN UndoResp(c, Cardinality(procs[i].docs))
                             ELSE Resp("undo", c, 400, "Restore failed",
                                       "insert")
                  /\ hist' = IF res[2] /\ procs[i].solo
                             THEN Entry(hist, "undo", c, MongoView(res[1]))
                             ELSE Other
    /\ procs' = Answered(i)
    /\ UNCHANGED <<variant, panel, isAdmin, now, nextId, fsVars, backups>>

\* ------------------------------------------- file server: the event loop
\* The handlers of the file server taken apart into what they read and what
\* they write, with the requests the server has accepted and not yet
\* answered kept in procs.  Every fs call succeeds here (the storage faults
\* are those of the handlers above).
JobOps == {"submit", "patch", "clear", "undo"}

\* A request of the file server: queued (accepted, its handler not yet
\* run) or begun (its handler has read seen and not yet written).  arg is
\* the :id of a patch; solo tells that no other request on the collection
\* was open together with it.
Job(pc, op, c, seen, arg, solo) ==
    [pc |-> pc, op |-> op, coll |-> c, seen |-> seen, arg |-> arg,
     solo |-> solo]

\* The response of such a request, with the record a submit returns (data).
JobResp(job, status, error, data) ==
    [op |-> job.op, coll |-> job.coll, status |-> status, error |-> error,
     cause |-> "", solo |-> job.solo, data |-> data]

\* A handler that awaits between its read and its write: the event loop
\* runs other handlers meanwhile.
YieldsAfterRead(op) == TRUE

\* Does the handler of op hand control back to the event loop between its
\* read and its write: no, every handler calls fs.readFileSync and
\* fs.writeFileSync in one synchronous function, with no await and no
\* callback between them.
Yields(op) == FALSE

\* The event loop can run a step of request i: no other handler is between
\* its read and its write, unless it has yielded.
CanRun(i) ==
    \A j \in DOMAIN procs :
        (j # i /\ procs[j].pc = "begun") => Yields(procs[j].op)

\* The server accepts a request; requireAdmin has let it through.
Arrive(op, c, arg) ==
    /\ reqs > 0
    /\ reqs' = reqs - 1
    /\ variant = "file"
    /\ op # "submit" => RequireAdmin(isAdmin)
    /\ Len(procs) < MaxInFlight
    /\ procs' = Append(Disturb(c),
                       Job("queued", op, c, <<>>, arg, InFlight(c) = {}))
    /\ resp' = NoResp
    /\ UNCHANGED <<variant, panel, isAdmin, now, nextId, fsVars, db, backups, hist>>

\* The handler of request i starts and runs up to its read: readJsonArray
\* (submit, patch), the read of the live file in clearFile, the read of the
\* backup file in undoClear.  clearFile of a missing file and undoClear
\* without a backup file return before any read.
Begin(i) ==
    /\ reqs' = reqs
    /\ variant = "file"
    /\ procs[i].pc = "queued"
    /\ CanRun(i)
    /\ LET job == procs[i]
           c == job.coll
       IN CASE job.op \in {"submit", "patch"} ->
                 LET f1 == EnsureJsonFile(fsLive[c], "ok")
                 IN /\ fsLive' = [fsLive EXCEPT ![c] = f1]
                    /\ procs' = [procs EXCEPT
                                   ![i].pc = "begun",
                                   ![i].seen = ReadJsonArray(f1, TRUE)]
                    /\ resp' = NoResp
                    /\ UNCHANGED <<backupDir, fsBackup>>
            [] job.op = "clear" ->
                 IF Exists(fsLive[c])
                 THEN /\ backupDir' = TRUE
                      /\ procs' = [procs EXCEPT ![i].pc = "begun",
                                                ![i].seen = fsLive[c]]
                      /\ resp' = NoResp
                      /\ UNCHANGED <<fsLive, fsBackup>>
                 ELSE LET res == ClearFile(fsLive[c], fsBackup[c], backupDir,
                                           "none")
                      IN /\ fsLive' = [fsLive EXCEPT ![c] = res[1]]
                         /\ fsBackup' = [fsBackup EXCEPT ![c] = res[2]]
                         /\ backupDir' = res[3]
                         /\ procs' = Answered(i)
                         /\ resp' = JobResp(job, 200, "", <<>>)
            [] job.op = "undo" ->
                 IF Exists(fsBackup[c])
                 THEN /\ procs' = [procs EXCEPT ![i].pc = "begun",
                                                ![i].seen = fsBackup[c]]
                      /\ resp' = NoResp
                      /\ UNCHANGED fsVars
                 ELSE /\ procs' = Answered(i)
                      /\ resp' = JobResp(job, 400, "No backup available",
                                         <<>>)
                      /\ UNCHANGED fsVars
    /\ UNCHANGED <<variant, panel, isAdmin, now, nextId, db, backups, hist>>

\* The handler of request i runs from its read to its response: it writes
\* what it computed from what it read.
Finish(i) ==
    /\ reqs' = reqs
    /\ variant = "file"
    /\ procs[i].pc = "begun"
    /\ CanRun(i)
    /\ LET job == procs[i]
           c == job.coll
           rec == NewRecord(now, now)
           idx == FindIndex(job.seen, job.arg)
       IN CASE job.op = "submit" ->
                 /\ fsLive' = [fsLive EXCEPT ![c] =
                                  Json(Append(job.seen, rec))]
                 /\ resp' = JobResp(job, 200, "", rec)
                 /\ UNCHANGED <<backupDir, fsBackup>>
            [] job.op = "patch" ->
                 IF idx = 0
                 THEN /\ resp' = JobResp(job, 404, "Appointment not found",
                                         <<>>)
                      /\ UNCHANGED fsVars
                 ELSE /\ fsLive' = [fsLive EXCEPT ![c] =
                                       Json([job.seen EXCEPT ![idx] =
                                               Merge(@, PatchBody)])]
                      /\ resp' = JobResp(job, 200, "", <<>>)
                      /\ UNCHANGED <<backupDir, fsBackup>>
            [] job.op = "clear" ->
                 /\ fsBackup' = [fsBackup EXCEPT ![c] = job.seen]
                 /\ fsLive' = [fsLive EXCEPT ![c] = Json(<<>>)]
                 /\ resp' = JobResp(job, 200, "", <<>>)
                 /\ UNCHANGED backupDir
            [] job.op = "undo" ->
                 /\ fsLive' = [fsLive EXCEPT ![c] = job.seen]
                 /\ resp' = JobResp(job, 200, "", <<>>)
                 /\ UNCHANGED <<backupDir, fsBackup>>
    /\ procs' = Answered(i)
    /\ UNCHANGED <<variant, panel, isAdmin, now, nextId, db, backups, hist>>

\* ---------------------------------------------------------- payment gateway
\* STATUS values of the gateway; NoStatus: the object has no STATUS field.
NoStatus == ""
GatewayStatus == {"TXN_SUCCESS", "TXN_FAILURE"}

\* The callback bodies: an empty form, or a form whose STATUS field is any
\* of the values or is missing (the sender of a callback chooses it freely).
EmptyBody == [empty |-> TRUE, status |-> NoStatus]
CallbackBodies ==
    {EmptyBody}
      \cup {[empty |-> FALSE, status |-> st] :
                st \in GatewayStatus \cup {NoStatus}}

\* PaytmChecksum.verifySignature resolves true or false, or throws.
Verifications == {"valid", "invalid", "throws"}

\* What the status query brings: the request fails ("error"), the response
\* does not parse to an object ("unparsable"), or it is an object with or
\* without a STATUS field.
QueryResults == {"error", "unparsable", NoStatus} \cup GatewayStatus

\* The record pushPayment stores: id pay_<now>, status, timestamp.
Payment(status, t) == [id |-> t, status |-> status, ts |-> t]

\* The record pushAppointment of this server stores (it has no status
\* field): id apt_<now>, timestamp, bookingType.
PaidAppointment(t) == [id |-> t, ts |-> t, bookingType |-> "Paytm"]

\* The faults one push can meet: the write of ensureJsonFile, the read, the
\* write of writeJsonArray.
PushFaults == WriteOutcomes \X BOOLEAN \X WriteOutcomes

NoFault == <<"ok", TRUE, "ok">>

\* pushPayment / pushAppointment: read the array, push, write; every error
\* is caught and logged inside the helpers.
Push(f, rec, fault) ==
    LET f1 == EnsureJsonFile(f, fault[1])
    IN WriteFile(f1, Json(Append(ReadJsonArray(f1, fault[2]), rec)), fault[3])

\* status: result.STATUS || receivedData.STATUS || "UNKNOWN"
LoggedStatus(result, body) ==
    IF result # NoStatus THEN result
    ELSE IF body.status # NoStatus THEN body.status
    ELSE "UNKNOWN"

\* The same test on the status that is logged, which falls back to the
\* STATUS of the callback body: the operand C27 depends on.
PaidPerLoggedStatus(result, body) ==
    LoggedStatus(result, body) = "TXN_SUCCESS"

\* if (result.STATUS === "TXN_SUCCESS")
Paid(result, body) == result = "TXN_SUCCESS"

\* The response of the callback route, with the outcome of the verification
\* and of the status query ("none" when the handler did not get there) and
\* the body of the request.
CallbackResp(status, text, cause, verify, result, body) ==
    [op |-> "callback", coll |-> "payments", status |-> status,
     error |-> text, cause |-> cause, verify |-> verify, result |-> result,
     body |-> body]

\* A callback whose status query is under way.
StatusQuery(body) ==
    [pc |-> "status_query", coll |-> "payments", current |-> {}, docs |-> {},
     pre |-> {}, solo |-> FALSE, faulted |-> FALSE, body |-> body]

\* The storage call of a push that failed, "" when none did.
PushCause(fault) == IF fault = NoFault THEN "" ELSE "push"

\* POST /api/paytm/order: 400 without an amount; else the checksum is
\* generated (signed: it resolves), an INITIATED payment is logged and the
\* checkout parameters are returned.
PaytmOrder ==
    /\ reqs > 0
    /\ reqs' = reqs - 1
    /\ variant = "file_gateway"
    /\ \E amount \in BOOLEAN, signed \in BOOLEAN, fault \in PushFaults :
         IF ~amount
         THEN /\ resp' = Resp("order", "payments", 400, "Amount is required",
                              "")
              /\ fsLive' = fsLive
         ELSE IF ~signed
         THEN /\ resp' = Resp("order", "payments", 500,
                              "Checksum generation failed", "sign")
              /\ fsLive' = fsLive
         ELSE /\ resp' = Resp("order", "payments", 200, "", PushCause(fault))
              /\ fsLive' = [fsLive EXCEPT !["payments"] =
                               Push(@, Payment("INITIATED", now), fault)]
    /\ UNCHANGED <<variant, panel, isAdmin, now, nextId, backupDir, fsBackup, dbVars,
                   hist>>

\* POST /api/paytm/callback up to the status query: the empty-body check,
\* the verification of the checksum, the signature of the query (signed).
CallbackVerify(body, verify) ==
    /\ reqs > 0
    /\ reqs' = reqs - 1
    /\ variant = "file_gateway"
    /\ Len(procs) < MaxInFlight
    /\ \E signed \in BOOLEAN, fault \in PushFaults :
         IF body.empty
         THEN /\ resp' = CallbackResp(400, "Bad Request", "", "none", "none",
                                      body)
              /\ UNCHANGED <<fsLive, procs>>
         ELSE IF verify = "invalid"
         THEN /\ resp' = CallbackResp(400, "Checksum mismatch",
                                      PushCause(fault), verify, "none", body)
              /\ fsLive' = [fsLive EXCEPT !["payments"] =
                               Push(@, Payment("CHECKSUM_MISMATCH", now),
                                    fault)]
              /\ procs' = procs
         ELSE IF verify = "throws"
         THEN /\ resp' = CallbackResp(500, "Checksum verification error",
                                      PushCause(fault), verify, "none", body)
              /\ fsLive' = [fsLive EXCEPT !["payments"] =
                               Push(@, Payment("CHECKSUM_VERIFY_ERROR", now),
                                    fault)]
              /\ procs' = procs
         ELSE IF ~signed
         THEN /\ resp' = CallbackResp(302, "/failure.html", "sign", verify,
                                      "none", body)
              /\ UNCHANGED <<fsLive, procs>>
         ELSE /\ resp' = NoResp
              /\ fsLive' = fsLive
              /\ procs' = Append(procs, StatusQuery(body))
    /\ UNCHANGED <<variant, panel, isAdmin, now, nextId, backupDir, fsBackup, db,
                   backups, hist>>

\* The status query of callback i ends: postReq "error", or "end" of the
\* response.  The payment is logged, and the appointment is stored when the
\* result says the transaction succeeded.
CallbackStatus(i, result) ==
    /\ reqs' = reqs
    /\ variant = "file_gateway"
    /\ procs[i].pc = "status_query"
    /\ \E fp \in PushFaults, fa \in PushFaults :
         LET body == procs[i].body
             logged == [fsLive EXCEPT !["payments"] =
                          Push(@, Payment(LoggedStatus(result, body), now),
                               fp)]
         IN IF result \in {"error", "unparsable"}
            THEN /\ resp' = CallbackResp(302, "/failure.html", "query",
                                         "valid", result, body)
                 /\ fsLive' = fsLive
            ELSE IF Paid(result, body)
            THEN /\ resp' = CallbackResp(302, "/success.html",
                                         IF fp = NoFault /\ fa = NoFault
                                         THEN "" ELSE "push",
                                         "valid", result, body)
                 /\ fsLive' = [logged EXCEPT !["appointments"] =
                                  Push(@, PaidAppointment(now), fa)]
            ELSE /\ resp' = CallbackResp(302, "/failure.html", PushCause(fp),
                                         "valid", result, body)
                 /\ fsLive' = logged
    /\ procs' = Answered(i)
    /\ UNCHANGED <<variant, panel, isAdmin, now, nextId, backupDir, fsBackup, db,
                   backups, hist>>

\* ------------------------------------------------------------- admin panel
\* The two copies of the admin panel script.
Scripts == {"part_004", "part_005"}

\* No alert is shown.
NoAlert == ""

\* The alerts that report success: the success messages of the server's
\* undo responses ("restored"), and the texts the scripts hold themselves.
Cleared == "Appointments cleared. You can undo from the dashboard."
UndoCompleted == "Undo completed"
Restored == "restored from backup"
SuccessAlerts == {Cleared, UndoCompleted, Restored}

\* What the panel did on a click: the response it got (status 0, error "":
\* fetch failed, there is none), and the alert it showed.
Click(script, op, status, error, alert) ==
    [script |-> script, op |-> op, status |-> status, error |-> error,
     alert |-> alert]

NoClick == Click("none", "none", 0, "", NoAlert)

\* data.message of a response body: the success bodies of the undo routes
\* carry a message, the error bodies carry only error; "undefined" is what
\* JavaScript yields for the missing property.
MessageOf(r) == IF r.status = 200 THEN Restored ELSE "undefined"

\* clearAppointments / clearFeedbacks on response r (fetched: the fetch
\* resolved).  part_004: a 401 goes to the login page, any other response
\* is followed by the alert, a failed fetch by "Failed to clear"; part_005
\* shows no alert at all.
ClearAlert(script, r, fetched) ==
    IF script = "part_005" THEN NoAlert
    ELSE IF ~fetched THEN "Failed to clear"
    ELSE IF r.status = 401 THEN NoAlert
    ELSE Cleared

\* undoAppointments / undoFeedbacks.  part_004:
\* alert(data.message || "Undo completed"), a failed fetch gives "Failed to
\* undo"; part_005: alert(res.message), and a failed fetch rejects the
\* function before any alert.
UndoAlert(script, r, fetched) ==
    IF script = "part_004"
    THEN IF ~fetched THEN "Failed to undo"
         ELSE IF MessageOf(r) # "undefined" THEN MessageOf(r)
         ELSE UndoCompleted
    ELSE IF ~fetched THEN NoAlert
         ELSE MessageOf(r)

\* The panel finishes clearAppointments / clearFeedbacks: the response of
\* its DELETE request has arrived, or the fetch has failed.
ClearAppointments(script) ==
    /\ resp.op = "clear"
    /\ resp.status # 0
    /\ \E fetched \in BOOLEAN :
         panel' = IF fetched
                  THEN Click(script, "clear", resp.status, resp.error,
                             ClearAlert(script, resp, TRUE))
                  ELSE Click(script, "clear", 0, "",
                             ClearAlert(script, resp, FALSE))
    /\ UNCHANGED <<variant, isAdmin, now, reqs, nextId, fsVars, dbVars, resp,
                   hist>>

\* The panel finishes undoAppointments / undoFeedbacks.
UndoAppointments(script) ==
    /\ resp.op = "undo"
    /\ resp.status # 0
    /\ \E fetched \in BOOLEAN :
         panel' = IF fetched
                  THEN Click(script, "undo", resp.status, resp.error,
                             UndoAlert(script, resp, TRUE))
                  ELSE Click(script, "undo", 0, "",
                             UndoAlert(script, resp, FALSE))
    /\ UNCHANGED <<variant, isAdmin, now, reqs, nextId, fsVars, dbVars, resp,
                   hist>>

\* ------------------------------------------------------------------- clock
Tick ==
    /\ reqs' = reqs
    /\ now < MaxTime
    /\ now' = now + 1
    /\ resp' = NoResp
    /\ UNCHANGED <<variant, panel, isAdmin, nextId, fsVars, dbVars, hist>>

\* ----------------------------------------------------------- specification
\* The state at server start of one of the variants, admitting budget
\* further collection requests.
Start(variants, budget) ==
    /\ variant \in variants
    /\ isAdmin = FALSE
    /\ now = 0
    /\ reqs = budget
    /\ backupDir = FALSE
    /\ fsLive = [c \in Stores |-> Missing]
    /\ fsBackup = [c \in Coll |-> Missing]
    /\ db = [c \in Coll |-> {}]
    /\ backups = <<>>
    /\ procs = <<>>
    /\ nextId = 1
    /\ resp = NoResp
    /\ hist = Other
    /\ panel = NoClick

Init == Start(Variants, MaxRequests)

Next ==
    \/ Tick
    \/ Login(ADMIN_USERNAME, ADMIN_PASSWORD)
    \/ \E c \in Coll : FileSubmit(c, NoId, NoExtra)
    \/ \E c \in Coll : FileClear(c)
    \/ \E c \in Coll : FileUndo(c)
    \/ \E id \in 0..MaxTime : FilePatch(id, PatchBody)
    \/ \E c \in Coll : FileList(c)
    \/ \E c \in Coll : MongoSubmit(c, NoId, NoExtra)
    \/ \E id \in 1..MaxRecords : MongoPatch(id, PatchBody)
    \/ \E c \in Coll : MongoList(c)
    \/ \E c \in Coll : ClearFind(c)
    \/ \E i \in DOMAIN procs : ClearBackup(i)
    \/ \E i \in DOMAIN procs : ClearDelete(i)
    \/ \E c \in Coll : UndoFind(c)
    \/ \E i \in DOMAIN procs : UndoDelete(i)
    \/ \E i \in DOMAIN procs : UndoInsert(i)

Spec == Init /\ [][Next]_vars

\* The same handlers with the session routes in full: logins with any
\* credentials, logout, and requests without the admin flag.
SessionInit == Start(Variants, MaxSessionRequests)

SessionNext ==
    \/ Next
    \/ \E u \in Usernames, p \in Passwords : Login(u, p)
    \/ Logout
    \/ \E r \in AdminRoutes : Unauthorized(r[1], r[2])

SessionSpec == SessionInit /\ [][SessionNext]_vars

\* The record handlers of the four servers: submissions with and without an
\* id in the body, patches with any :id and body.
RecordInit == Start(RecordVariants, MaxRecordRequests)

RecordNext ==
    \/ Tick
    \/ Login(ADMIN_USERNAME, ADMIN_PASSWORD)
    \/ \E c \in Coll, bid \in {NoId} \cup BodyIds, extra \in Extras :
         FileSubmit(c, bid, extra)
    \/ \E c \in Coll, bid \in {NoId} \cup BodyIds, extra \in Extras :
         MongoSubmit(c, bid, extra)
    \/ \E id \in PatchIds, body \in PatchBodies : FilePatch(id, body)
    \/ \E id \in PatchIds, body \in PatchBodies : PaytmPatch(id, body)
    \/ \E id \in PatchIds, body \in PatchBodies : MongoPatch(id, body)
    \/ \E id \in PatchIds, body \in PatchBodies : SessionPatch(id, body)

RecordSpec == RecordInit /\ [][RecordNext]_vars

\* The MongoDB server with session store (src/unnamed/part_002) alone, with
\* its admin routes.  Every awaited database call settles and the event loop
\* then resumes the handler that awaits it: the steps of the requests in
\* flight are weakly fair.
StoreInit == Start({"mongo_session"}, MaxStoreRequests)

Resume ==
    \E i \in DOMAIN procs :
        ClearBackup(i) \/ ClearDelete(i) \/ UndoDelete(i) \/ UndoInsert(i)

StoreNext ==
    \/ Tick
    \/ Login(ADMIN_USERNAME, ADMIN_PASSWORD)
    \/ \E c \in Coll : MongoSubmit(c, NoId, NoExtra)
    \/ \E id \in 0..MaxRecords : SessionPatch(id, PatchBody)
    \/ \E c \in Coll : MongoList(c)
    \/ \E c \in Coll : ClearFind(c)
    \/ \E c \in Coll : UndoFind(c)
    \/ Resume

StoreSpec == StoreInit /\ [][StoreNext]_vars /\ WF_vars(Resume)

\* The payment routes of the file server with the Paytm gateway.
PaytmInit == Start({"file_gateway"}, MaxPaytmRequests)

PaytmNext ==
    \/ Tick
    \/ PaytmOrder
    \/ \E body \in CallbackBodies, verify \in Verifications :
         CallbackVerify(body, verify)
    \/ \E i \in DOMAIN procs, result \in QueryResults :
         CallbackStatus(i, result)

PaytmSpec == PaytmInit /\ [][PaytmNext]_vars

\* The file server under concurrent requests.
SerialInit == Start({"file"}, MaxSerialRequests)

SerialNext ==
    \/ Tick
    \/ Login(ADMIN_USERNAME, ADMIN_PASSWORD)
    \/ \E c \in Coll : Arrive("submit", c, NoId)
    \/ \E c \in Coll : Arrive("clear", c, NoId)
    \/ \E c \in Coll : Arrive("undo", c, NoId)
    \/ \E id \in 0..MaxTime : Arrive("patch", "appointments", id)
    \/ \E i \in DOMAIN procs : Begin(i)
    \/ \E i \in DOMAIN procs : Finish(i)

SerialSpec == SerialInit /\ [][SerialNext]_vars

\* The admin panel in front of the file server and of the MongoDB server.
PanelInit == Start(Variants, MaxPanelRequests)

PanelNext ==
    \/ Login(ADMIN_USERNAME, ADMIN_PASSWORD)
    \/ \E c \in Coll : FileSubmit(c, NoId, NoExtra)
    \/ \E c \in Coll : FileClear(c)
    \/ \E c \in Coll : FileUndo(c)
    \/ \E c \in Coll : MongoSubmit(c, NoId, NoExtra)
    \/ \E c \in Coll : ClearFind(c)
    \/ \E i \in DOMAIN procs : ClearBackup(i)
    \/ \E i \in DOMAIN procs : ClearDelete(i)
    \/ \E c \in Coll : UndoFind(c)
    \/ \E i \in DOMAIN procs : UndoDelete(i)
    \/ \E i \in DOMAIN procs : UndoInsert(i)
    \/ \E c \in Coll : Unauthorized("clear", c)
    \/ \E c \in Coll : Unauthorized("undo", c)
    \/ \E script \in Scripts : ClearAppointments(script)
    \/ \E script \in Scripts : UndoAppointments(script)

PanelSpec == PanelInit /\ [][PanelNext]_vars

\* ==================================================================== claims
\* Has a Backup document / backup file of collection c been stored.
NoBackupOf(c) ==
    IF variant = "file" THEN ~Exists(fsBackup[c])
    ELSE \A b \in DOMAIN backups : backups[b].collectionName # c

\* The step answers a clean undo that directly follows a clean request op on
\* the same collection (hist changes only when a write request is answered).
UndoAfter(op) ==
    /\ hist.op = op
    /\ hist'.op = "undo"
    /\ hist'.coll = hist.coll
    /\ hist'.after = op

\* C1: a successful clear(C) followed immediately by a successful undo(C), no
\* other request in between and no storage fault, leaves C holding exactly
\* the records R it held before the clear (same identifiers, field values and
\* count), in the file server and in the MongoDB server.
C1_RoundTrip == [][UndoAfter("clear") => hist'.val = hist.val]_vars

\* C2: MongoDB server: when persisting the Backup document fails during a
\* clear, deleteMany is not executed, the live collection is unchanged and
\* the response is 500.
C2_FailClosedMongo ==
    [][(resp'.op = "clear" /\ resp'.cause = "backup" /\ variant = "mongo")
         => (resp'.status = 500 /\ db' = db)]_vars

\* C3: file server: when clearFile fails creating the backup directory or
\* writing the backup file, the live collection file is not truncated (it
\* reads as before, and an existing file is left as it was) and the DELETE
\* handler answers 500.
C3_FailClosedFile ==
    [][\A c \in Coll :
         (/\ variant = "file"
          /\ resp'.op = "clear"
          /\ resp'.coll = c
          /\ resp'.cause \in {"mkdir", "backup"})
         => (/\ resp'.status = 500
             /\ FileView(fsLive'[c]) = FileView(fsLive[c])
             /\ (Exists(fsLive[c]) => fsLive'[c] = fsLive[c]))]_vars

\* C3 witness: a clear whose backup write failed has answered 500 and the
\* live file still holds its records.
C3_Witness ==
    /\ variant = "file"
    /\ resp.op = "clear"
    /\ resp.cause = "backup"
    /\ resp.status = 500
    /\ FileView(fsLive[resp.coll]) # <<>>

\* C4: MongoDB server: every record a clear removes from the live collection
\* is contained in the snapshot that same clear created, also when a public
\* submission is processed between the clear's find and its deleteMany.
C4_SnapshotComplete ==
    [][\A i \in DOMAIN procs :
         (/\ procs[i].pc = "clear_delete"
          /\ ~procs[i].faulted
          /\ procs' = Answered(i)
          /\ resp'.op = "clear"
          /\ resp'.status = 200)
         => MongoView(db[procs[i].coll]) \subseteq MongoView(procs[i].current)]_vars

\* C5: undo on a collection for which no backup was ever stored never reports
\* success and leaves the live collection unchanged; unless the lookup itself
\* meets a storage fault, it answers 400 "No backup available".
C5_UndoWithoutBackup ==
    [][\A c \in Coll :
         (resp'.op = "undo" /\ resp'.coll = c /\ NoBackupOf(c))
         => (/\ resp'.status # 200
             /\ (resp'.cause = ""
                   => resp'.status = 400
                      /\ resp'.error = "No backup available")
             /\ fsLive'[c] = fsLive[c]
             /\ db'[c] = db[c])]_vars

\* C5 witness: the MongoDB server has answered 400 "No backup available" for
\* a collection that holds records and has no backup.
C5_Witness ==
    /\ variant = "mongo"
    /\ resp.op = "undo"
    /\ resp.status = 400
    /\ resp.error = "No backup available"
    /\ NoBackupOf(resp.coll)
    /\ db[resp.coll] # {}

\* C6: two consecutive successful undo(C) calls with no clear or other write
\* on C between them leave C with the same contents after the second call as
\* after the first.
C6_UndoIdempotent == [][UndoAfter("undo") => hist'.val = hist.val]_vars

\* C7: whenever undo(C) reports success, the live collection holds exactly
\* the records of the latest snapshot of C and nothing else.
C7_UndoReplaces ==
    \A c \in Coll :
        (resp.op = "undo" /\ resp.coll = c /\ resp.status = 200)
        => IF variant = "file"
           THEN FileView(fsLive[c]) = FileView(fsBackup[c])
           ELSE \E b \in LatestBackups(backups, c) :
                   MongoView(db[c]) = backups[b].data

\* C8: an undo that fails part-way (insertMany rejects after deleteMany ran,
\* or the write of the live file throws) leaves the live collection with the
\* full contents it had before the undo started.
C8_RestoreAllOrNothing ==
    [][/\ \A i \in DOMAIN procs :
            (/\ procs[i].pc \in {"undo_delete", "undo_insert"}
             /\ procs[i].solo
             /\ procs' = Answered(i)
             /\ resp'.op = "undo"
             /\ resp'.status # 200)
            => MongoView(db'[procs[i].coll]) = procs[i].pre
       /\ \A c \in Coll :
            (/\ variant = "file"
             /\ resp'.op = "undo"
             /\ resp'.coll = c
             /\ resp'.status # 200)
            => FileView(fsLive'[c]) = FileView(fsLive[c])]_vars

\* C9: once a clear has created a snapshot, no later operation changes or
\* removes it: the backup file of the file server keeps its contents, every
\* Backup document of the MongoDB server stays as it was stored.
C9_SnapshotImmutable ==
    [][/\ \A c \in Coll :
            fsBackup[c].kind = "json" => fsBackup'[c] = fsBackup[c]
       /\ \A b \in DOMAIN backups :
            b \in DOMAIN backups' /\ backups'[b] = backups[b]]_vars

\* C10: MongoDB server: no reachable state has a clear between its first and
\* last step while an undo on the same collection is between its first and
\* last step.
C10_ClearUndoExclusive ==
    \A i \in DOMAIN procs, j \in DOMAIN procs :
        ~(/\ procs[i].pc \in {"clear_backup", "clear_delete"}
          /\ procs[j].pc \in {"undo_delete", "undo_insert"}
          /\ procs[i].coll = procs[j].coll)

\* C11: MongoDB server: two clears of one collection that are in flight
\* together and have both stored their snapshot have snapshots of a serial
\* execution: no record is in both snapshots.
C11_ConcurrentClearsSerial ==
    \A i \in DOMAIN procs, j \in DOMAIN procs :
        (/\ i # j
         /\ procs[i].coll = procs[j].coll
         /\ procs[i].pc = "clear_delete" /\ ~procs[i].faulted
         /\ procs[j].pc = "clear_delete" /\ ~procs[j].faulted)
        => MongoView(procs[i].current) \cap MongoView(procs[j].current) = {}

\* The step starts an undo of the MongoDB server that found a Backup.
UndoStarts ==
    /\ Len(procs') = Len(procs) + 1
    /\ procs'[Len(procs')].pc = "undo_delete"

\* Backup b is the one of its collection with the strictly latest createdAt.
StrictlyLatest(b) ==
    \A j \in DOMAIN backups :
        (j # b /\ backups[j].collectionName = backups[b].collectionName)
        => backups[j].createdAt < backups[b].createdAt

\* C12: an undo installs the records of the snapshot with the latest creation
\* time and of no earlier one.  MongoDB server: the records an undo sets out
\* to insert are those of the Backup of the collection whose createdAt is
\* strictly the latest.  File server: an undo that directly follows a clear
\* or another undo of the collection restores what that clear saved, however
\* many undos are issued.
C12_UndoLatestOnly ==
    [][/\ UndoStarts =>
            \A b \in DOMAIN backups :
                (/\ backups[b].collectionName = procs'[Len(procs')].coll
                 /\ StrictlyLatest(b))
                => procs'[Len(procs')].docs = backups[b].data
       /\ (variant = "file" /\ (UndoAfter("clear") \/ UndoAfter("undo")))
            => hist'.val = hist.val]_vars

\* C12 witness: two Backups of one collection with different records and
\* different creation times exist, and an undo in flight is about to install
\* the records of the later one.
C12_Witness ==
    \E i \in DOMAIN procs, a \in DOMAIN backups, b \in DOMAIN backups :
        /\ procs[i].pc = "undo_insert"
        /\ backups[a].collectionName = procs[i].coll
        /\ backups[b].collectionName = procs[i].coll
        /\ backups[a].createdAt < backups[b].createdAt
        /\ backups[a].data # backups[b].data
        /\ procs[i].docs = backups[b].data

\* Operations of the routes behind requireAdmin.
AdminOps == {"list", "clear", "undo", "patch"}

\* The step receives a request on an admin route and answers it at once
\* (the answers of requests in flight take their request out of procs).
AdminAnswer ==
    /\ resp'.op \in AdminOps
    /\ Len(procs') = Len(procs)

\* C13: a list, clear, undo or patch request made on a session whose admin
\* flag is not set is answered 401 and changes no collection and no backup;
\* no handler of such a request starts.
C13_AdminGate ==
    [][~isAdmin =>
         /\ Len(procs') <= Len(procs)
         /\ AdminAnswer =>
              /\ resp'.status = 401
              /\ fsVars' = fsVars
              /\ db' = db
              /\ backups' = backups]_vars

\* C13 witness: a clear on a collection that holds records has been answered
\* 401 on a session without the flag.
C13_Witness ==
    /\ ~isAdmin
    /\ resp.op = "clear"
    /\ resp.status = 401
    /\ (FileView(fsLive[resp.coll]) # <<>> \/ db[resp.coll] # {})

\* C14: the admin flag becomes set only by a login carrying the configured
\* username and password, which answers success true; a login with a
\* mismatch answers success false with a non-error status and leaves the
\* flag as it was.
C14_Login ==
    [][/\ (~isAdmin /\ isAdmin') =>
            /\ resp'.op = "login"
            /\ resp'.success
            /\ resp'.username = ADMIN_USERNAME
            /\ resp'.password = ADMIN_PASSWORD
       /\ resp'.op = "login" =>
            IF resp'.username = ADMIN_USERNAME
               /\ resp'.password = ADMIN_PASSWORD
            THEN resp'.success /\ isAdmin'
            ELSE /\ ~resp'.success
                 /\ resp'.status < 400
                 /\ isAdmin' = isAdmin]_vars

\* C14 witness: a login with a wrong password has answered success false on
\* a session whose flag was set, and the flag is still set.
C14_Witness ==
    /\ resp.op = "login"
    /\ resp.username = ADMIN_USERNAME
    /\ resp.password # ADMIN_PASSWORD
    /\ ~resp.success
    /\ isAdmin

\* C15: a logout whose session teardown succeeds clears the admin flag, one
\* whose teardown fails answers 500; while the flag is clear every admin
\* request is answered 401, and only a successful login sets the flag again.
C15_Logout ==
    [][/\ resp'.op = "logout" =>
            /\ resp'.status \in {302, 500}
            /\ resp'.status = 302 => ~isAdmin'
            /\ resp'.cause = "destroy" => resp'.status = 500
       /\ (~isAdmin /\ AdminAnswer) => resp'.status = 401
       /\ (~isAdmin /\ isAdmin') => (resp'.op = "login" /\ resp'.success)]_vars

\* C15 witness: a session that had cleared a collection (a backup exists) has
\* no flag any more and its admin request has been answered 401.
C15_Witness ==
    /\ ~isAdmin
    /\ resp.op \in AdminOps
    /\ resp.status = 401
    /\ (backups # <<>> \/ \E c \in Coll : Exists(fsBackup[c]))

\* What a list request shows of the appointments file before and after the
\* step.
Appts == FileView(fsLive["appointments"])
ApptsAfter == FileView(fsLive'["appointments"])

\* No stored appointment is matched by the :id of a patch request.
NoRecordMatches(id) ==
    IF variant \in FileVariants THEN FindIndex(Appts, id) = 0
    ELSE /\ ById(db["appointments"], id) = {}
         /\ ByIdField(db["appointments"], id) = {}

\* The step answers a patch that met no storage fault.
PatchAnswered == resp'.op = "patch" /\ resp'.cause = ""

\* C16: a patch whose :id matches no appointment is answered 404 and leaves
\* every record unchanged, in each of the four servers and for every form of
\* :id, one that is not a well-formed ObjectId included.
C16_PatchUnknownId ==
    [][(PatchAnswered /\ NoRecordMatches(resp'.id))
         => (/\ resp'.status = 404
             /\ ApptsAfter = Appts
             /\ db' = db)]_vars

C18_IdStable ==
    [][(PatchAnswered /\ resp'.status = 200) =>
         IF variant \in FileVariants
         THEN /\ Len(ApptsAfter) = Len(Appts)
              /\ \A k \in 1..Len(Appts) : ApptsAfter[k].id = Appts[k].id
         ELSE Ids(MongoView(db'["appointments"]))
                = Ids(MongoView(db["appointments"]))]_vars

\* C19: file servers: no two records of one collection file share an id.
C19_UniqueIds ==
    variant \in FileVariants =>
        \A c \in Coll :
            \A i \in 1..Len(FileView(fsLive[c])),
               j \in 1..Len(FileView(fsLive[c])) :
                i # j => FileView(fsLive[c])[i].id # FileView(fsLive[c])[j].id

\* C20: a submit answers success only if the record it returns is in the
\* stored collection afterwards; when the write of the collection fails the
\* answer is 500.
C20_DurableAppend ==
    resp.op = "submit" =>
        /\ resp.cause # "" => resp.status = 500
        /\ resp.status = 200 =>
             IF variant \in FileVariants
             THEN \E k \in 1..Len(FileView(fsLive[resp.coll])) :
                     FileView(fsLive[resp.coll])[k] = resp.data
             ELSE resp.data \in MongoView(db[resp.coll])

\* C21: an undo answers 400 "No backup available" only when no snapshot of
\* the collection exists; an undo that found a snapshot and failed reading it
\* or writing the restored contents answers a 5xx status, not 400.
C21_UndoErrorClass ==
    resp.op = "undo" =>
        /\ (resp.status = 400 /\ resp.error = "No backup available")
             => NoBackupOf(resp.coll)
        /\ (~NoBackupOf(resp.coll) /\ resp.cause # "") => resp.status >= 500

\* C22: MongoDB server with session store: every list, clear, undo or patch
\* request the server has received is eventually answered, also when a
\* database call of its handler rejects: whenever requests are open, a later
\* state has none open.
C22_NoHang == (procs # <<>>) ~> (procs = <<>>)

\* The elements of a sequence.
Range(s) == {s[i] : i \in DOMAIN s}

\* What the collection of the last response holds.
Current(c) ==
    IF variant \in FileVariants THEN Range(FileView(fsLive[c]))
    ELSE MongoView(db[c])

\* C23: a list that met no storage fault answers with all current records
\* of the collection ordered by creation timestamp, newest first, and with
\* the empty sequence for an empty collection, in the file server as in the
\* MongoDB server.
C23_ListOrder ==
    (resp.op = "list" /\ resp.status = 200 /\ resp.cause = "") =>
        /\ Range(resp.data) = Current(resp.coll)
        /\ \A i \in DOMAIN resp.data, j \in DOMAIN resp.data :
             i < j => resp.data[i].ts >= resp.data[j].ts
        /\ Current(resp.coll) = {} => resp.data = <<>>

\* The Backup documents of collection c, in insertion order.
BackupsOf(bs, c) == SelectSeq(bs, LAMBDA b : b.collectionName = c)

\* The step changes the live records or the snapshots of collection c.
Touched(c) ==
    \/ fsLive'[c] # fsLive[c]
    \/ fsBackup'[c] # fsBackup[c]
    \/ db'[c] # db[c]
    \/ BackupsOf(backups', c) # BackupsOf(backups, c)

\* The step belongs to a request on collection c: it answers one, or it is
\* a step of one in flight that sends no response yet.
StepOf(c) ==
    \/ resp'.coll = c
    \/ /\ resp' = NoResp
       /\ \E i \in DOMAIN procs :
            /\ procs[i].coll = c
            /\ i \in DOMAIN procs'
            /\ procs'[i] # procs[i]

\* C24: a step that changes the live records or the snapshots of a
\* collection belongs to a submission, list, clear, undo or patch request on
\* that collection: no request on one collection changes another one.
C24_Independence == [][\A c \in Coll : Touched(c) => StepOf(c)]_vars

\* C24 witness: a clear of appointments has answered success while feedback
\* holds records and a snapshot of its own.
C24_Witness ==
    /\ resp.op = "clear"
    /\ resp.coll = "appointments"
    /\ resp.status = 200
    /\ Current("feedback") # {}
    /\ ~NoBackupOf("feedback")

\* The number of records collection c holds.
LiveCount(c) ==
    IF variant \in FileVariants THEN Len(FileView(fsLive[c]))
    ELSE Cardinality(db[c])

\* C25: a successful undo response carries a field restored, whose value is
\* the number of records of the latest snapshot of the collection and the
\* number of records the collection holds after the undo, in the file server
\* as in the MongoDB server.
C25_RestoredCount ==
    (resp.op = "undo" /\ resp.status = 200) =>
        /\ "restored" \in DOMAIN resp
        /\ resp.restored = LiveCount(resp.coll)
        /\ IF variant \in FileVariants
           THEN resp.restored = Len(FileView(fsBackup[resp.coll]))
           ELSE \E b \in LatestBackups(backups, resp.coll) :
                   resp.restored = Cardinality(backups[b].data)

\* C26: an appointment submission whose body carries a field beyond the
\* known ones and that answers success has stored the record with that field
\* and its value, so that a list shows it, in the file servers as in the
\* MongoDB servers.
C26_ExtraPreserved ==
    (/\ resp.op = "submit"
     /\ resp.coll = "appointments"
     /\ resp.status = 200
     /\ resp.cause = ""
     /\ resp.extra # NoExtra)
    => \E rec \in Current("appointments") :
          rec.id = resp.data.id /\ ExtraOf(rec) = resp.extra

\* What a list request shows of the payments log before and after the step.
Pays == FileView(fsLive["payments"])
PaysAfter == FileView(fsLive'["payments"])

C28_SubmitOnlyAdds ==
    [][\A c \in Coll :
         (/\ variant \in FileVariants
          /\ resp'.op = "submit"
          /\ resp'.coll = c
          /\ resp'.cause = "")
         => FileView(fsLive'[c]) = Append(FileView(fsLive[c]), resp'.data)]_vars

\* What the handler of a begun request read is still what the file holds.
Fresh(job) ==
    CASE job.op \in {"submit", "patch"} ->
           job.seen = FileView(fsLive[job.coll])
      [] job.op = "clear" -> job.seen = fsLive[job.coll]
      [] job.op = "undo" -> job.seen = fsBackup[job.coll]

\* No handler is between its read and its write on a file that has changed
\* since the read.
NoStaleRead ==
    \A i \in DOMAIN procs : procs[i].pc = "begun" => Fresh(procs[i])

C30_PanelReportsFailure ==
    /\ (/\ panel.op \in {"clear", "undo"}
        /\ panel.status >= 400
        /\ panel.status # 401)
         => panel.alert = panel.error
    /\ panel.alert \in SuccessAlerts => panel.status = 200

====
